---- MODULE Spec2Model ----
(***************************************************************************)
(* micro:bit focus timer (habitify.py): the serial listener thread, the    *)
(* event queue, and the Tk-thread session controller (poll_events,         *)
(* start_focus, end_focus, sudden_move, update_timer) with its calls to    *)
(* the Habitify client, the CSV history file and the desktop-focus helper. *)
(*                                                                         *)
(* The Tk thread runs one callback at a time.  A callback that calls a     *)
(* collaborator (requests.post/put, open(), subprocess.run) stays inside   *)
(* that call until it returns; the variable tk holds the position of the   *)
(* Tk thread, so a state with tk = "start_create" is a state in which      *)
(* habitify_create_action has been called and has not returned yet.        *)
(* The listener thread runs concurrently with every Tk position.           *)
(*                                                                         *)
(* Wall-clock values are not modelled: session_start_time is either None   *)
(* or the token "set".  The history chart (show_history) and the window    *)
(* raising of popup_window are not modelled.                               *)
(***************************************************************************)
EXTENDS Integers, Sequences, FiniteSets, TLC

\* Bounds of the model.
MaxEvents == 3          \* events the listener enqueues in one run
MaxDuration == 2        \* configured session length, in one-second ticks
MaxPieces == 3          \* pieces a line given to interpret_event is made of

None == "None"

(***************************************************************************)
(* Text: a line is a sequence of one-character strings.                    *)
(***************************************************************************)
Whitespace == {" ", "\t", "\n", "\r"}

LowerLetters == <<"a","b","c","d","e","f","g","h","i","j","k","l","m",
                  "n","o","p","q","r","s","t","u","v","w","x","y","z">>
UpperLetters == <<"A","B","C","D","E","F","G","H","I","J","K","L","M",
                  "N","O","P","Q","R","S","T","U","V","W","X","Y","Z">>

\* The upper-case letter of each lower-case letter.
UpperOf ==
    [c \in {LowerLetters[i] : i \in 1..Len(LowerLetters)} |->
        UpperLetters[CHOOSE i \in 1..Len(LowerLetters) : LowerLetters[i] = c]]

UpperChar(c) == IF c \in DOMAIN UpperOf THEN UpperOf[c] ELSE c

\* No change of case.
upper_asis(s) == s

\* Python's  s.upper()  on ASCII text
upper(s) == [i \in 1..Len(s) |-> UpperChar(s[i])]

RECURSIVE lstrip(_)
lstrip(s) == IF s # <<>> /\ Head(s) \in Whitespace THEN lstrip(Tail(s)) ELSE s

RECURSIVE rstrip(_)
rstrip(s) ==
    IF s # <<>> /\ s[Len(s)] \in Whitespace
    THEN rstrip(SubSeq(s, 1, Len(s) - 1))
    ELSE s

strip(s) == rstrip(lstrip(s))

\* Python's  sub in s
Contains(sub, s) ==
    \E i \in 1..(Len(s) - Len(sub) + 1) : SubSeq(s, i, i + Len(sub) - 1) = sub

FOCUS == <<"F","O","C","U","S">>

StartTokens == { <<"S","T","A","R","T">>, <<"S","T","R","T">>, <<"S","A","R","T">>,
                 <<"S","T","A","T">>, <<"T","A","R","T">> }

EndTokens == { <<"E","N","D">>, <<"S","T","O","P">>, <<"F","I","N","I","S","H">> }

MoveTokens == { <<"M","O","V","E">>, <<"M","O","T","I","O","N">>,
                <<"S","H","A","K","E">> }

\* The rules tried from the last to the first.
interpret_event_reversed(ln) ==
    LET s == upper(strip(ln)) IN
    IF \E t \in MoveTokens : Contains(t, s)
    THEN "SUDDEN_MOVE"
    ELSE IF Contains(FOCUS, s) /\ (\E t \in EndTokens : Contains(t, s))
    THEN "END_FOCUS"
    ELSE IF Contains(FOCUS, s) /\ (\E t \in StartTokens : Contains(t, s))
    THEN "START_FOCUS"
    ELSE None

interpret_event(ln) ==
    LET s == upper(strip(ln)) IN
    IF Contains(FOCUS, s) /\ (\E t \in StartTokens : Contains(t, s))
    THEN "START_FOCUS"
    ELSE IF Contains(FOCUS, s) /\ (\E t \in EndTokens : Contains(t, s))
    THEN "END_FOCUS"
    ELSE IF \E t \in MoveTokens : Contains(t, s)
    THEN "SUDDEN_MOVE"
    ELSE None

\* Raw lines the device delivers in this model (what readline().decode() returns).
DeviceLines ==
    { <<"S","T","A","R","T","_","F","O","C","U","S","\n">>,
      <<"e","n","d","_","f","o","c","u","s","\r","\n">>,
      <<" ","M","O","V","E","\n">>,
      <<"X","Y","Z","Z","Y","\n">>,
      <<" ","\r","\n">> }

\* Ids habitify_create_action can return besides None: data["id"] is returned
\* as it came in the response body, so the id may be a value Python takes for
\* false (an empty string, 0).
ActionIds == {"a1", ""}

\* The truth value Python gives an id in  if self.current_action_id:
Truthy(id) == id # None /\ id # ""

CallNames == {"create", "add_log", "csv", "complete", "enter", "leave"}

VARIABLES
    lpc,                     \* listener thread: "open", "loop", "backoff", "exited"
    event_queue,             \* queue.Queue(): FIFO of event names
    duration,                \* FocusApp.duration
    focus_active,
    remaining,
    current_action_id,
    session_start_time,
    move_count,
    focus_enforcer_running,
    status_label,
    warning_label,
    csv_rows,                \* session_logs.csv: the move_count column, row by row
    tk,                      \* position of the Tk thread
    cont,                    \* where update_timer returns to
    pendingPolls,            \* root.after(200, poll_events) callbacks not yet run
    pendingTicks,            \* root.after(1000, update_timer) callbacks not yet run
    pendingClears,           \* root.after(3000, clear warning) callbacks not yet run
    enqueued,                \* history: every event put on event_queue, in order
    applied,                 \* history: every event poll_events dispatched, in order
    calls,                   \* history: number of calls made to each collaborator
    nStarts,                 \* history: Idle -> Active transitions
    nEnds,                   \* history: Active -> Idle transitions
    sessionTicks,            \* history: tick callbacks run in the current session
    sessionMoves,            \* history: sudden_move calls made while Active, this session
    heard,                   \* history: what the last line read came to (ListenerSpec)
    erred,                   \* history: an exception was caught in the loop (ListenerSpec)
    cl_pieces,               \* classifier input: the pieces the line is made of
    cl_line,                 \* classifier input: the line given to interpret_event
    cl_event,                \* interpret_event(cl_line), "unset" before the call
    cl_upper_event           \* interpret_event(cl_line.upper()), "unset" before the call

sessionVars == <<focus_active, remaining, current_action_id, session_start_time,
                 move_count, focus_enforcer_running>>
uiVars == <<status_label, warning_label>>
timerVars == <<pendingPolls, pendingTicks, pendingClears>>
histVars == <<calls, nStarts, nEnds, sessionTicks, sessionMoves>>
lhistVars == <<heard, erred>>
clsVars == <<cl_pieces, cl_line, cl_event, cl_upper_event>>

vars == <<lpc, event_queue, duration, focus_active, remaining,
          current_action_id, session_start_time, move_count,
          focus_enforcer_running, status_label, warning_label, csv_rows,
          tk, cont, pendingPolls, pendingTicks, pendingClears,
          enqueued, applied, calls, nStarts, nEnds, sessionTicks, sessionMoves,
          heard, erred, cl_pieces, cl_line, cl_event, cl_upper_event>>

\* The program after FocusApp.__init__ and the start of the listener thread.
Constructed ==
    /\ lpc = "open"
    /\ event_queue = <<>>
    /\ duration \in 1..MaxDuration
    /\ focus_active = FALSE
    /\ remaining = 0
    /\ current_action_id = None
    /\ session_start_time = None
    /\ move_count = 0
    /\ focus_enforcer_running = FALSE
    /\ status_label = "FOCUS OFF"
    /\ warning_label = ""
    /\ csv_rows = <<>>
    /\ tk = "mainloop"
    /\ cont = "mainloop"
    /\ pendingPolls = 1
    /\ pendingTicks = 0
    /\ pendingClears = 0
    /\ enqueued = <<>>
    /\ applied = <<>>
    /\ calls = [c \in CallNames |-> 0]
    /\ nStarts = 0
    /\ nEnds = 0
    /\ sessionTicks = 0
    /\ sessionMoves = 0

\* No line has been read and no exception caught yet.
NothingHeard ==
    /\ heard = "nothing"
    /\ erred = FALSE

\* interpret_event has not been called on an input of its own.
NothingClassified ==
    /\ cl_pieces = <<>>
    /\ cl_line = <<>>
    /\ cl_event = "unset"
    /\ cl_upper_event = "unset"

Init == Constructed /\ NothingHeard /\ NothingClassified

tkVars == <<duration, focus_active, remaining, current_action_id,
            session_start_time, move_count, focus_enforcer_running,
            status_label, warning_label, csv_rows, tk, cont, pendingPolls,
            pendingTicks, pendingClears, applied, calls, nStarts, nEnds,
            sessionTicks, sessionMoves, clsVars>>

(***************************************************************************)
(* The listener thread.                                                    *)
(***************************************************************************)
\* serial.Serial(...) succeeds.
OpenOk ==
    /\ lpc = "open"
    /\ lpc' = "loop"
    /\ UNCHANGED <<event_queue, enqueued, lhistVars>>
    /\ UNCHANGED tkVars

\* serial.Serial(...) raises SerialException: sys.exit(1) raises SystemExit in
\* the listener thread, which ends that thread and nothing else.
OpenFail ==
    /\ lpc = "open"
    /\ lpc' = "exited"
    /\ UNCHANGED <<event_queue, enqueued, lhistVars>>
    /\ UNCHANGED tkVars

\* A put that goes to the front of the queue (a LifoQueue).
QueuePut_front(q, e) == <<e>> \o q

QueuePut(q, e) == Append(q, e)

\* line = ser.readline().decode(...).strip(); an empty line is skipped, any
\* other line is classified.  The result per device line, None for no event.
Classified ==
    [raw \in DeviceLines |->
        LET ln == strip(raw) IN
        IF ln = <<>> THEN None ELSE interpret_event(ln)]

\* One iteration of the while loop that reads the line raw without an
\* exception.
\* The put made without the test of the event.
Enqueues_always(event) == TRUE

\* if event is not None:
Enqueues(event) == event # None

ReadLineOf(raw) ==
    /\ lpc = "loop"
    /\ LET event == Classified[raw] IN
        IF Enqueues(event)
        THEN /\ Len(enqueued) < MaxEvents
             /\ event_queue' = QueuePut(event_queue, event)
             /\ enqueued' = Append(enqueued, event)
        ELSE UNCHANGED <<event_queue, enqueued>>
    /\ UNCHANGED lpc
    /\ UNCHANGED tkVars

ReadLine ==
    /\ \E raw \in DeviceLines : ReadLineOf(raw)
    /\ UNCHANGED lhistVars

\* An exception that is not caught ends the thread.
AfterException_uncaught == "exited"

\* except Exception as e: print(...); time.sleep(1)
AfterException == "backoff"

\* An exception inside the loop body.
Raise ==
    /\ lpc = "loop"
    /\ lpc' = AfterException
    /\ UNCHANGED <<event_queue, enqueued>>
    /\ UNCHANGED tkVars

ReadError ==
    /\ Raise
    /\ UNCHANGED lhistVars

\* time.sleep(1) returns and the while loop goes round.
Resume ==
    /\ lpc = "backoff"
    /\ lpc' = "loop"
    /\ UNCHANGED <<event_queue, enqueued, lhistVars>>
    /\ UNCHANGED tkVars

Listener == OpenOk \/ OpenFail \/ ReadLine \/ ReadError \/ Resume

lstVars == <<lpc, enqueued, lhistVars, clsVars>>

(***************************************************************************)
(* Collaborators.  Each is entered by the handler (the call is counted in  *)
(* calls) and left by a return step that draws the outcome.                *)
(***************************************************************************)
Called(name) == [calls EXCEPT ![name] = @ + 1]

\* habitify_create_action: an id on success with an id in the body, None on a
\* non-2xx status, a body without id, or any exception.
CreateOutcomes == ActionIds \cup {None}

\* log_session_to_csv: the row is written, or open()/writerow raised and the
\* exception was printed.
CsvWrite(rows, ok) == IF ok THEN Append(rows, move_count) ELSE rows

IS_MAC == TRUE

(***************************************************************************)
(* update_timer, called with the place it returns to and the number of     *)
(* tick callbacks still pending when it starts.                            *)
(***************************************************************************)
\* The expiry test one second early.
TimerExpired_early == remaining <= 1

TimerExpired == remaining <= 0

\* The logging block is skipped as if no start time had been recorded.
SessionTimed_never == FALSE

\* if self.session_start_time is not None:
SessionTimed == session_start_time # None

\* Two seconds taken off per tick.
Decrement_twice(r) == r - 2

Decrement(r) == r - 1

\* An expiry branch that leaves out the completion of the action.
AfterLog_timerSkipsComplete(prefix) ==
    IF Truthy(current_action_id) /\ prefix = "end"
    THEN prefix \o "_complete" ELSE prefix \o "_leave"

\* Position after the logging block of end_focus / update_timer.
AfterLog(prefix) ==
    IF Truthy(current_action_id) THEN prefix \o "_complete" ELSE prefix \o "_leave"

\* update_timer without its first test.
TimerIdle_never == FALSE

\* if not self.focus_active: return
TimerIdle == ~focus_active

update_timer(ret, pend) ==
    IF TimerIdle
    THEN /\ tk' = ret
         /\ pendingTicks' = pend
         /\ UNCHANGED <<focus_active, remaining, status_label, warning_label,
                        cont, calls, nEnds>>
    ELSE IF TimerExpired
    THEN /\ focus_active' = FALSE
         /\ status_label' = "SESSION COMPLETE"
         /\ warning_label' = ""
         /\ nEnds' = nEnds + 1
         /\ cont' = ret
         /\ pendingTicks' = pend
         /\ IF SessionTimed
            THEN tk' = "timer_add_log" /\ calls' = Called("add_log")
            ELSE /\ tk' = AfterLog("timer")
                 /\ calls' = Called(IF Truthy(current_action_id)
                                    THEN "complete" ELSE "leave")
         /\ UNCHANGED remaining
    ELSE /\ remaining' = Decrement(remaining)
         /\ pendingTicks' = pend + 1
         /\ tk' = ret
         /\ UNCHANGED <<focus_active, status_label, warning_label, cont,
                        calls, nEnds>>

(***************************************************************************)
(* poll_events.                                                            *)
(***************************************************************************)
\* The after(200) callback starts.
PollFire ==
    /\ tk = "mainloop"
    /\ pendingPolls > 0
    /\ pendingPolls' = pendingPolls - 1
    /\ tk' = "poll_check"
    /\ UNCHANGED <<sessionVars, uiVars, duration, csv_rows, cont, pendingTicks,
                   pendingClears, applied, histVars, event_queue>>
    /\ UNCHANGED lstVars

\* while not event_queue.empty(): ... ; self.root.after(200, self.poll_events)
\* A loop test that never sees the queue empty (while True: get()).
QueueEmpty_never(q) == FALSE

\* event_queue.empty()
QueueEmpty(q) == q = <<>>

\* poll_events without its last line.
Rescheduled_dropped(n) == n

\* self.root.after(200, self.poll_events)
Rescheduled(n) == n + 1

PollCheck ==
    /\ tk = "poll_check"
    /\ IF QueueEmpty(event_queue)
       THEN tk' = "mainloop" /\ pendingPolls' = Rescheduled(pendingPolls)
       ELSE tk' = "poll_get" /\ UNCHANGED pendingPolls
    /\ UNCHANGED <<sessionVars, uiVars, duration, csv_rows, cont, pendingTicks,
                   pendingClears, applied, histVars, event_queue>>
    /\ UNCHANGED lstVars

QueueFront(q) == Head(q)

QueueRest(q) == Tail(q)

\* msg = event_queue.get() and the dispatch on msg.
Get(msg) ==
    /\ tk = "poll_get"
    /\ event_queue # <<>>
    /\ QueueFront(event_queue) = msg
    /\ event_queue' = QueueRest(event_queue)
    /\ applied' = Append(applied, msg)

\* start_focus without its  if self.focus_active: return.
StartIgnored_never == FALSE

StartIgnored == focus_active

\* start_focus without  self.move_count = 0.
ResetMoves_keep == move_count

ResetMoves == 0

\* start_focus up to the call of habitify_create_action.
ApplyStartFocus ==
    /\ Get("START_FOCUS")
    /\ IF StartIgnored
       THEN /\ tk' = "poll_check"
            /\ UNCHANGED <<sessionVars, uiVars, histVars>>
       ELSE /\ focus_active' = TRUE
            /\ remaining' = duration
            /\ move_count' = ResetMoves
            /\ session_start_time' = "set"
            /\ status_label' = "FOCUS ON"
            /\ warning_label' = ""
            /\ tk' = "start_create"
            /\ calls' = Called("create")
            /\ nStarts' = nStarts + (IF focus_active THEN 0 ELSE 1)
            /\ sessionTicks' = 0
            /\ sessionMoves' = 0
            /\ UNCHANGED <<current_action_id, focus_enforcer_running, nEnds>>
    /\ UNCHANGED <<duration, csv_rows, cont, timerVars>>
    /\ UNCHANGED lstVars

\* habitify_create_action returns; enter_desktop_focus is called.
CreateReturn ==
    /\ tk = "start_create"
    /\ \E r \in CreateOutcomes : current_action_id' = r
    /\ tk' = "start_enter"
    /\ calls' = Called("enter")
    /\ UNCHANGED <<focus_active, remaining, session_start_time, move_count,
                   focus_enforcer_running, uiVars, duration, csv_rows, cont,
                   timerVars, applied, nStarts, nEnds, sessionTicks,
                   sessionMoves, event_queue>>
    /\ UNCHANGED lstVars

\* enter_desktop_focus returns; start_focus ends with self.update_timer().
EnterReturn ==
    /\ tk = "start_enter"
    /\ focus_enforcer_running' = IS_MAC
    /\ update_timer("poll_check", pendingTicks)
    /\ UNCHANGED <<current_action_id, session_start_time, move_count, duration,
                   csv_rows, pendingPolls, pendingClears, applied, nStarts,
                   sessionTicks, sessionMoves, event_queue>>
    /\ UNCHANGED lstVars

EndIgnored == ~focus_active

\* end_focus up to its first collaborator call.
ApplyEndFocus ==
    /\ Get("END_FOCUS")
    /\ IF EndIgnored
       THEN /\ tk' = "poll_check"
            /\ UNCHANGED <<focus_active, status_label, calls, nEnds>>
       ELSE /\ focus_active' = FALSE
            /\ status_label' = "FOCUS STOPPED"
            /\ nEnds' = nEnds + (IF focus_active THEN 1 ELSE 0)
            /\ IF SessionTimed
               THEN tk' = "end_add_log" /\ calls' = Called("add_log")
               ELSE /\ tk' = AfterLog("end")
                    /\ calls' = Called(IF Truthy(current_action_id)
                                       THEN "complete" ELSE "leave")
    /\ UNCHANGED <<remaining, current_action_id, session_start_time, move_count,
                   focus_enforcer_running, warning_label, duration, csv_rows,
                   cont, timerVars, nStarts, sessionTicks, sessionMoves>>
    /\ UNCHANGED lstVars

\* sudden_move.
\* sudden_move without its last line.
ClearScheduled_not(n) == n

\* self.root.after(3000, lambda: self.warning_label.config(text=""))
ClearScheduled(n) == n + 1

ApplySuddenMove ==
    /\ Get("SUDDEN_MOVE")
    /\ move_count' = move_count + 1
    /\ warning_label' = "move"
    /\ pendingClears' = ClearScheduled(pendingClears)
    /\ sessionMoves' = IF focus_active THEN sessionMoves + 1 ELSE sessionMoves
    /\ tk' = "poll_check"
    /\ UNCHANGED <<focus_active, remaining, current_action_id,
                   session_start_time, focus_enforcer_running, status_label,
                   duration, csv_rows, cont, pendingPolls, pendingTicks,
                   calls, nStarts, nEnds, sessionTicks>>
    /\ UNCHANGED lstVars

(***************************************************************************)
(* The rest of end_focus and of the expiry branch of update_timer: the     *)
(* same statements twice in the source, at positions prefix_add_log,       *)
(* prefix_csv, prefix_complete, prefix_leave with prefix "end" or "timer". *)
(***************************************************************************)
Return(prefix) == IF prefix = "end" THEN "poll_check" ELSE cont

\* habitify_add_log returns (whatever the response); log_session_to_csv is called.
AddLogReturn(prefix) ==
    /\ tk = prefix \o "_add_log"
    /\ tk' = prefix \o "_csv"
    /\ calls' = Called("csv")
    /\ UNCHANGED <<sessionVars, uiVars, duration, csv_rows, cont, timerVars,
                   applied, nStarts, nEnds, sessionTicks, sessionMoves,
                   event_queue>>
    /\ UNCHANGED lstVars

\* log_session_to_csv without its try/except: a failed write leaves the handler.
\* Position after log_session_to_csv: its try/except keeps a failed write
\* inside the function, so the handler goes on either way.
AfterCsv_raise(prefix, ok) == IF ok THEN AfterLog(prefix) ELSE Return(prefix)

AfterCsv(prefix, ok) == AfterLog(prefix)

\* log_session_to_csv returns.
CsvReturn(prefix) ==
    /\ tk = prefix \o "_csv"
    /\ \E ok \in BOOLEAN :
        /\ csv_rows' = CsvWrite(csv_rows, ok)
        /\ tk' = AfterCsv(prefix, ok)
    /\ calls' = Called(IF Truthy(current_action_id) THEN "complete" ELSE "leave")
    /\ UNCHANGED <<sessionVars, uiVars, duration, cont, timerVars, applied,
                   nStarts, nEnds, sessionTicks, sessionMoves, event_queue>>
    /\ UNCHANGED lstVars

\* habitify_complete_action returns (whatever the response); the id is cleared
\* and leave_desktop_focus is called.
CompleteReturn(prefix) ==
    /\ tk = prefix \o "_complete"
    /\ current_action_id' = None
    /\ tk' = prefix \o "_leave"
    /\ calls' = Called("leave")
    /\ UNCHANGED <<focus_active, remaining, session_start_time, move_count,
                   focus_enforcer_running, uiVars, duration, csv_rows, cont,
                   timerVars, applied, nStarts, nEnds, sessionTicks,
                   sessionMoves, event_queue>>
    /\ UNCHANGED lstVars

\* The handler without its last assignment.
ResetStart_kept == session_start_time

\* self.session_start_time = None
ResetStart == None

\* leave_desktop_focus returns; self.session_start_time = None; the handler ends.
LeaveReturn(prefix) ==
    /\ tk = prefix \o "_leave"
    /\ focus_enforcer_running' = FALSE
    /\ session_start_time' = ResetStart
    /\ tk' = Return(prefix)
    /\ UNCHANGED <<focus_active, remaining, current_action_id, move_count,
                   uiVars, duration, csv_rows, cont, timerVars, applied,
                   histVars, event_queue>>
    /\ UNCHANGED lstVars

EndAddLogReturn == AddLogReturn("end")
EndCsvReturn == CsvReturn("end")
EndCompleteReturn == CompleteReturn("end")
EndLeaveReturn == LeaveReturn("end")
TimerAddLogReturn == AddLogReturn("timer")
TimerCsvReturn == CsvReturn("timer")
TimerCompleteReturn == CompleteReturn("timer")
TimerLeaveReturn == LeaveReturn("timer")

(***************************************************************************)
(* Callbacks scheduled with root.after, run by the main loop.              *)
(***************************************************************************)
\* The after(1000) callback: update_timer.
TimerFire ==
    /\ tk = "mainloop"
    /\ pendingTicks > 0
    /\ sessionTicks' = IF focus_active THEN sessionTicks + 1 ELSE sessionTicks
    /\ update_timer("mainloop", pendingTicks - 1)
    /\ UNCHANGED <<current_action_id, session_start_time, move_count,
                   focus_enforcer_running, duration, csv_rows, pendingPolls,
                   pendingClears, applied, nStarts, sessionMoves, event_queue>>
    /\ UNCHANGED lstVars

\* The after(3000) callback: lambda: self.warning_label.config(text="").
WarningClear ==
    /\ tk = "mainloop"
    /\ pendingClears > 0
    /\ pendingClears' = pendingClears - 1
    /\ warning_label' = ""
    /\ UNCHANGED <<sessionVars, status_label, duration, csv_rows, tk, cont,
                   pendingPolls, pendingTicks, applied, histVars, event_queue>>
    /\ UNCHANGED lstVars

Poll == PollFire \/ PollCheck \/ ApplyStartFocus \/ ApplyEndFocus \/ ApplySuddenMove

StartFocusCalls == CreateReturn \/ EnterReturn

EndFocusCalls ==
    EndAddLogReturn \/ EndCsvReturn \/ EndCompleteReturn \/ EndLeaveReturn

TimerCalls ==
    TimerAddLogReturn \/ TimerCsvReturn \/ TimerCompleteReturn \/ TimerLeaveReturn

Tk == Poll \/ StartFocusCalls \/ EndFocusCalls \/ TimerCalls \/ TimerFire \/ WarningClear

Next == Listener \/ Tk

Spec == Init /\ [][Next]_vars

\* The Tk main loop runs the callback it is in to its end and runs a pending
\* after() callback once it is due; a tick callback or a warning-clear callback
\* that is pending each time the main loop is idle is run.
FairSpec == Spec /\ WF_vars(Tk) /\ SF_vars(TimerFire) /\ SF_vars(WarningClear)

(***************************************************************************)
(* The same program with the listener's history recorded: what the last    *)
(* iteration of its loop came to, and whether an exception was ever caught. *)
(***************************************************************************)
\* What one iteration that read raw came to.
Heard(raw) ==
    IF Classified[raw] # None THEN "put"
    ELSE IF strip(raw) = <<>> THEN "empty"
    ELSE "no_event"

HeardLine ==
    /\ \E raw \in DeviceLines : ReadLineOf(raw) /\ heard' = Heard(raw)
    /\ UNCHANGED erred

HeardError ==
    /\ Raise
    /\ heard' = "error"
    /\ erred' = TRUE

ListenerNext == OpenOk \/ OpenFail \/ HeardLine \/ HeardError \/ Resume \/ Tk

ListenerSpec == Init /\ [][ListenerNext]_vars

(***************************************************************************)
(* interpret_event on its own: a line is made of up to MaxPieces pieces     *)
(* (FOCUS, the tokens of the three rules, other text), written in one of    *)
(* three letter cases, with or without whitespace around it; the function   *)
(* is called on the line and on the line in upper case.                     *)
(***************************************************************************)
Noise == { <<"X">>, <<"_">> }

Pieces == {FOCUS} \cup StartTokens \cup EndTokens \cup MoveTokens \cup Noise

PieceSeqs == UNION { [1..n -> Pieces] : n \in 0..MaxPieces }

RECURSIVE Join(_)
Join(ps) == IF ps = <<>> THEN <<>> ELSE Head(ps) \o Join(Tail(ps))

LowerChar(c) ==
    IF \E i \in 1..Len(UpperLetters) : UpperLetters[i] = c
    THEN LowerLetters[CHOOSE i \in 1..Len(UpperLetters) : UpperLetters[i] = c]
    ELSE c

CaseModes == {"upper", "lower", "mixed"}

Cased(mode, s) ==
    [i \in 1..Len(s) |->
        IF mode = "lower" \/ (mode = "mixed" /\ i % 2 = 1)
        THEN LowerChar(s[i]) ELSE s[i]]

Pads == {"none", "both"}

Padded(pad, s) ==
    IF pad = "both" THEN <<" ", "\t">> \o s \o <<"\r", "\n">> ELSE s

progVars == <<lpc, event_queue, enqueued, lhistVars, sessionVars, uiVars,
              duration, csv_rows, tk, cont, timerVars, applied, histVars>>

ClassifyInit ==
    /\ Constructed
    /\ duration = 1
    /\ NothingHeard
    /\ cl_pieces \in PieceSeqs
    /\ \E mode \in CaseModes, pad \in Pads :
          cl_line = Padded(pad, Cased(mode, Join(cl_pieces)))
    /\ cl_event = "unset"
    /\ cl_upper_event = "unset"

\* interpret_event(s)
Classify ==
    /\ cl_event = "unset"
    /\ cl_event' = interpret_event(cl_line)
    /\ UNCHANGED <<cl_pieces, cl_line, cl_upper_event, progVars>>

\* interpret_event(s.upper())
ClassifyUpper ==
    /\ cl_event # "unset"
    /\ cl_upper_event = "unset"
    /\ cl_upper_event' = interpret_event(upper(cl_line))
    /\ UNCHANGED <<cl_pieces, cl_line, cl_event, progVars>>

ClassifyNext == Classify \/ ClassifyUpper

ClassifySpec == ClassifyInit /\ [][ClassifyNext]_vars

(***************************************************************************)
(* focus_timer_pc.py, the earliest version of the program.  It has the     *)
(* fields focus_active, duration, remaining and the two labels, no          *)
(* collaborator calls, and another start_focus.  Its poll_events, its       *)
(* warning-clear callback and its listener loop are the text of             *)
(* habitify.py, so their actions are used as they are; the fields it does   *)
(* not have keep their first values.                                        *)
(***************************************************************************)
PcStartTokens == { <<"S","T","A","R","T">>, <<"S","T","R","T">>,
                   <<"S","A","R","T">>, <<"S","T","A","T">> }

PcEndTokens == { <<"E","N","D">>, <<"S","T","O","P">> }

pc_interpret_event(ln) ==
    LET s == upper(strip(ln)) IN
    IF Contains(FOCUS, s) /\ (\E t \in PcStartTokens : Contains(t, s))
    THEN "START_FOCUS"
    ELSE IF Contains(FOCUS, s) /\ (\E t \in PcEndTokens : Contains(t, s))
    THEN "END_FOCUS"
    ELSE IF \E t \in MoveTokens : Contains(t, s)
    THEN "SUDDEN_MOVE"
    ELSE None

PcClassified ==
    [raw \in DeviceLines |->
        LET ln == strip(raw) IN
        IF ln = <<>> THEN None ELSE pc_interpret_event(ln)]

\* One iteration of the listener's loop that reads a line without an exception.
PcReadLine ==
    /\ lpc = "loop"
    /\ \E raw \in DeviceLines :
        LET event == PcClassified[raw] IN
        IF event # None
        THEN /\ Len(enqueued) < MaxEvents
             /\ event_queue' = QueuePut(event_queue, event)
             /\ enqueued' = Append(enqueued, event)
        ELSE UNCHANGED <<event_queue, enqueued>>
    /\ UNCHANGED <<lpc, lhistVars>>
    /\ UNCHANGED tkVars

\* The fields and histories of habitify.py that focus_timer_pc.py lacks.
laterVars == <<current_action_id, session_start_time, move_count,
               focus_enforcer_running, csv_rows, cont, calls, nStarts, nEnds,
               sessionMoves>>

\* update_timer, entered with focus_active = active, remaining = rem and the
\* labels showing status and warning, pend tick callbacks pending.
pc_update_timer(active, rem, status, warning, pend) ==
    IF ~active
    THEN /\ focus_active' = active
         /\ remaining' = rem
         /\ status_label' = status
         /\ warning_label' = warning
         /\ pendingTicks' = pend
    ELSE IF rem <= 0
    THEN /\ focus_active' = FALSE
         /\ remaining' = rem
         /\ status_label' = "SESSION COMPLETE"
         /\ warning_label' = ""
         /\ pendingTicks' = pend
    ELSE /\ focus_active' = active
         /\ remaining' = rem - 1
         /\ status_label' = status
         /\ warning_label' = warning
         /\ pendingTicks' = pend + 1

\* A start_focus that always starts from the configured duration.
PcResumes_never == FALSE

\* if not self.focus_active and self.remaining > 0: pass
PcResumes == ~focus_active /\ remaining > 0

\* start_focus, its closing self.update_timer() included.
PcApplyStartFocus ==
    /\ Get("START_FOCUS")
    /\ pc_update_timer(TRUE, IF PcResumes THEN remaining ELSE duration,
                       "FOCUS ON", "", pendingTicks)
    /\ sessionTicks' = 0
    /\ tk' = "poll_check"
    /\ UNCHANGED <<laterVars, duration, pendingPolls, pendingClears>>
    /\ UNCHANGED lstVars

\* end_focus.
PcApplyEndFocus ==
    /\ Get("END_FOCUS")
    /\ IF ~focus_active
       THEN UNCHANGED <<focus_active, status_label>>
       ELSE focus_active' = FALSE /\ status_label' = "FOCUS STOPPED"
    /\ tk' = "poll_check"
    /\ UNCHANGED <<laterVars, remaining, warning_label, duration, timerVars,
                   sessionTicks>>
    /\ UNCHANGED lstVars

\* sudden_move.
PcApplySuddenMove ==
    /\ Get("SUDDEN_MOVE")
    /\ warning_label' = "move"
    /\ pendingClears' = pendingClears + 1
    /\ tk' = "poll_check"
    /\ UNCHANGED <<laterVars, focus_active, remaining, status_label, duration,
                   pendingPolls, pendingTicks, sessionTicks>>
    /\ UNCHANGED lstVars

\* The after(1000) callback: update_timer.
PcTimerFire ==
    /\ tk = "mainloop"
    /\ pendingTicks > 0
    /\ sessionTicks' = IF focus_active THEN sessionTicks + 1 ELSE sessionTicks
    /\ pc_update_timer(focus_active, remaining, status_label, warning_label,
                       pendingTicks - 1)
    /\ UNCHANGED <<laterVars, duration, tk, pendingPolls, pendingClears,
                   applied, event_queue>>
    /\ UNCHANGED lstVars

PcListener == OpenOk \/ OpenFail \/ PcReadLine \/ ReadError \/ Resume

PcTk ==
    \/ PollFire \/ PollCheck \/ PcApplyStartFocus \/ PcApplyEndFocus
    \/ PcApplySuddenMove \/ PcTimerFire \/ WarningClear

PcNext == PcListener \/ PcTk

PcSpec == Init /\ [][PcNext]_vars

(***************************************************************************)
(* Properties.                                                             *)
(***************************************************************************)
\* A step in which poll_events dispatches msg.
Dispatched(msg) == applied' = Append(applied, msg)

CallStages ==
    {"start_create", "start_enter", "end_add_log", "end_csv", "end_complete",
     "end_leave", "timer_add_log", "timer_csv", "timer_complete", "timer_leave"}

\* C1: the handler calls made by poll_events are, in order, exactly the events
\* put on event_queue: what was enqueued is what was dispatched followed by what
\* is still queued, under every interleaving of the listener and poll_events.
C1_AppliedInEnqueueOrder == enqueued = applied \o event_queue

\* Two SUDDEN_MOVE events in a row were dispatched as two sudden_move calls.
C1_Witness ==
    /\ applied = <<"START_FOCUS", "SUDDEN_MOVE", "SUDDEN_MOVE">>
    /\ move_count = 2
    /\ event_queue = <<>>

\* C2: END_FOCUS or SUDDEN_MOVE dispatched while focus_active is false changes
\* none of focus_active, remaining, session_start_time, current_action_id and
\* move_count and calls no collaborator.
C2_IdleEventsAreNoOps ==
    [][ (~focus_active /\ (Dispatched("END_FOCUS") \/ Dispatched("SUDDEN_MOVE")))
        => UNCHANGED <<focus_active, remaining, session_start_time,
                       current_action_id, move_count, calls>> ]_vars

\* C3: START_FOCUS dispatched while focus_active is true changes none of
\* remaining, move_count, session_start_time and current_action_id, calls no
\* collaborator and schedules no tick: start_focus returns at once.
C3_StartWhileActiveIgnored ==
    [][ (focus_active /\ Dispatched("START_FOCUS"))
        => /\ UNCHANGED <<focus_active, remaining, move_count,
                          session_start_time, current_action_id, calls,
                          pendingTicks>>
           /\ tk' = "poll_check" ]_vars

\* A second START_FOCUS was dispatched during the session the first one started.
C3_Witness ==
    /\ Len(applied) >= 2
    /\ applied[1] = "START_FOCUS"
    /\ applied[2] = "START_FOCUS"
    /\ nStarts = 1
    /\ nEnds = 0
    /\ focus_active
    /\ tk = "poll_check"

\* C4: the number of habitify_add_log calls equals the number of Active -> Idle
\* transitions, and so does the number of log_session_to_csv calls once the
\* add-log call of the ending handler has returned; no row is in the file
\* without such a call.
C4_OneRecordPerEnd ==
    /\ calls["add_log"] = nEnds
    /\ calls["csv"] = nEnds - (IF tk \in {"end_add_log", "timer_add_log"} THEN 1 ELSE 0)
    /\ Len(csv_rows) <= calls["csv"]

\* One session, ended by END_FOCUS; a second END_FOCUS and the tick left over
\* from the session have both run, and there is still one record.
C4_Witness ==
    /\ applied = <<"START_FOCUS", "END_FOCUS", "END_FOCUS">>
    /\ tk = "mainloop"
    /\ pendingTicks = 0
    /\ remaining > 0
    /\ nEnds = 1
    /\ calls["add_log"] = 1
    /\ calls["csv"] = 1

\* C5: every row appended to the history file carries the number of
\* SUDDEN_MOVE events dispatched while Active in the session that is ending.
C5_RecordedMovesAreSessionMoves ==
    [][ csv_rows' # csv_rows => csv_rows' = Append(csv_rows, sessionMoves) ]_vars

\* A SUDDEN_MOVE before the session and one inside it: the row says 1.
C5_Witness ==
    /\ applied = <<"SUDDEN_MOVE", "START_FOCUS", "SUDDEN_MOVE">>
    /\ csv_rows = <<1>>
\* A step in which the expiry branch of update_timer ends the session.
AutoCompleteStep ==
    focus_active /\ ~focus_active' /\ status_label' = "SESSION COMPLETE"

\* C6: remaining is never negative, does not increase while the session stays
\* Active, and is exactly 0 in the update_timer call that auto-completes.
C6_RemainingCountsDown ==
    [][ /\ remaining >= 0
        /\ remaining' >= 0
        /\ (focus_active /\ focus_active') => remaining' <= remaining
        /\ AutoCompleteStep => remaining = 0 ]_vars

\* A two-second session has counted 2, 1, 0 and is auto-completing.
C6_Witness ==
    /\ tk = "timer_add_log"
    /\ duration = 2
    /\ sessionTicks = 2
    /\ remaining = 0

\* C7: with the tick callback scheduled fairly every session ends; it ends only
\* by a dispatched END_FOCUS or by auto-completion; auto-completion happens in
\* the tick callback that is the duration-th of the session and makes exactly one
\* add-log call.
C7_SessionAutoCompletes ==
    /\ focus_active ~> ~focus_active
    /\ [][ /\ (focus_active /\ ~focus_active')
              => (AutoCompleteStep \/ Dispatched("END_FOCUS"))
           /\ AutoCompleteStep
              => /\ sessionTicks' = duration
                 /\ calls'["add_log"] = calls["add_log"] + 1
                 /\ nEnds' = nEnds + 1 ]_vars

\* A one-second session with no END_FOCUS: complete after one tick, one record.
C7_Witness ==
    /\ applied = <<"START_FOCUS">>
    /\ enqueued = <<"START_FOCUS">>
    /\ duration = 1
    /\ status_label = "SESSION COMPLETE"
    /\ sessionTicks = 1
    /\ tk = "mainloop"
    /\ calls["add_log"] = 1
    /\ calls["csv"] = 1

\* C8: while a collaborator call made by a handler has not returned, a pending
\* tick callback can run and poll_events can go on draining the queue.
C8_CallsDoNotStallTk ==
    tk \in CallStages =>
        /\ pendingTicks > 0 => ENABLED TimerFire
        /\ event_queue # <<>> => ENABLED Poll

\* The position that follows each collaborator call in its handler.
NextStatement(stage) ==
    CASE stage = "start_create" -> {"start_enter"}
      [] stage = "start_enter" -> {"poll_check"}
      [] stage = "end_add_log" -> {"end_csv"}
      [] stage = "end_csv" -> {"end_complete", "end_leave"}
      [] stage = "end_complete" -> {"end_leave"}
      [] stage = "end_leave" -> {"poll_check"}
      [] stage = "timer_add_log" -> {"timer_csv"}
      [] stage = "timer_csv" -> {"timer_complete", "timer_leave"}
      [] stage = "timer_complete" -> {"timer_leave"}
      [] stage = "timer_leave" -> {"mainloop", "poll_check"}

\* C9: when a collaborator call returns, whatever its outcome, the handler goes
\* on with its next statement (no exception leaves it, the call is not made
\* again) and focus_active, remaining, move_count and session_start_time get
\* the values the handler gives them on success.
C9_FailureLeavesTransition ==
    [][ (tk \in CallStages /\ tk' # tk)
        => /\ tk' \in NextStatement(tk)
           /\ focus_active' = focus_active
           /\ move_count' = move_count
           /\ remaining' = (IF tk = "start_enter" THEN remaining - 1 ELSE remaining)
           /\ session_start_time' = (IF tk \in {"end_leave", "timer_leave"}
                                     THEN None ELSE session_start_time)
           /\ \A c \in CallNames : calls'[c] <= calls[c] + 1 ]_vars

\* A session whose create call returned no id and whose CSV write failed has
\* started and ended all the same.
C9_Witness ==
    /\ applied = <<"START_FOCUS", "END_FOCUS">>
    /\ tk = "poll_check"
    /\ calls["create"] = 1
    /\ calls["complete"] = 0
    /\ calls["csv"] = 1
    /\ csv_rows = <<>>
    /\ ~focus_active
    /\ session_start_time = None

\* C10: once opening the serial port has failed, no Tk callback runs any more.
C10_OpenFailureStopsTk ==
    [][ lpc = "exited" => UNCHANGED tkVars ]_vars

\* C11: once the device is open, an exception in the loop body never ends the
\* listener: from the loop or the back-off the listener only ever goes to the
\* loop or the back-off, a step out of the back-off goes back to the loop, and
\* a put made after an exception leaves the listener in the loop.
C11_ListenerSurvivesErrors ==
    [][ /\ lpc \in {"loop", "backoff"} => lpc' \in {"loop", "backoff"}
        /\ (lpc = "backoff" /\ lpc' # lpc) => lpc' = "loop"
        /\ (erred /\ enqueued' # enqueued) => lpc' = "loop" ]_vars

\* An exception was caught and the line read after it was enqueued.
C11_Witness ==
    /\ erred
    /\ heard = "put"
    /\ lpc = "loop"
    /\ enqueued # <<>>

\* C12: every event put on event_queue is eventually dequeued and applied by
\* poll_events (whenever events are waiting, a state follows in which all that
\* was put has been applied), and poll_events has rescheduled itself whenever it has
\* returned to the main loop: exactly one poll callback is pending then, and
\* none while poll_events runs.
C12_NoEventLost ==
    /\ [](pendingPolls = IF tk \in {"mainloop", "timer_add_log", "timer_csv",
                                     "timer_complete", "timer_leave"}
                         THEN 1 ELSE 0)
    /\ (Len(applied) < Len(enqueued)) ~> (applied = enqueued)

\* Every event the listener put has been applied and the poll is pending again.
C12_Witness ==
    /\ Len(enqueued) >= 2
    /\ applied = enqueued
    /\ tk = "mainloop"
    /\ pendingPolls = 1

\* The device line raw holds no start, end or movement token, in any case.
NoToken(raw) ==
    \A t \in StartTokens \cup EndTokens \cup MoveTokens :
        ~Contains(t, upper(strip(raw)))

\* The device lines that hold no token.
TokenFree == {raw \in DeviceLines : NoToken(raw)}

\* The fields of the session and of its window.
SessionState == <<sessionVars, uiVars, duration, csv_rows, timerVars>>

\* C13: the listener's only effect is on event_queue: a step of the listener
\* (its position, its history or the events it has put change) leaves every
\* field of the session unchanged, and an iteration that read a line holding no
\* token leaves event_queue and the session unchanged.
C13_ListenerOnlyTouchesQueue ==
    [][ /\ (lpc' # lpc \/ heard' # heard \/ erred' # erred \/ enqueued' # enqueued)
            => UNCHANGED SessionState
        /\ \A raw \in TokenFree :
            ReadLineOf(raw) => UNCHANGED <<event_queue, enqueued, SessionState>> ]_vars

\* During a session, with events waiting, the last line read held no token.
C13_Witness ==
    /\ heard = "no_event"
    /\ focus_active
    /\ event_queue # <<>>
    /\ lpc = "loop"

\* The Tk thread is between two handlers: in the main loop, or in poll_events
\* before or after a dispatch.
AtHandlerBoundary == tk \in {"mainloop", "poll_check", "poll_get"}

\* C14: at every handler boundary current_action_id is non-null only while the
\* session is Active.
C14_ActionIdOnlyWhileActive ==
    AtHandlerBoundary => (current_action_id # None => focus_active)

\* C15: at every handler boundary session_start_time is set exactly when the
\* session is Active.
C15_StartTimeIffActive ==
    AtHandlerBoundary => (session_start_time # None <=> focus_active)

\* One session ended by its timer and a later one by END_FOCUS, both logged,
\* and the start time is cleared.
C15_Witness ==
    /\ AtHandlerBoundary
    /\ applied = <<"START_FOCUS", "START_FOCUS", "END_FOCUS">>
    /\ nEnds = 2
    /\ Len(csv_rows) = 2
    /\ status_label = "FOCUS STOPPED"
    /\ session_start_time = None

\* C16: every sudden_move call schedules a clear callback; while the movement
\* warning shows, a clear callback is pending, whatever the session state; and
\* the warning is eventually cleared.
C16_WarningEventuallyCleared ==
    /\ [][Dispatched("SUDDEN_MOVE") => pendingClears' = pendingClears + 1]_vars
    /\ [](warning_label = "move" => pendingClears > 0)
    /\ (warning_label = "move") ~> (warning_label = "")

\* The session was stopped by END_FOCUS while the warning shows; its clear
\* callback is still pending and is the next thing the main loop can run.
C16_Witness ==
    /\ applied = <<"START_FOCUS", "SUDDEN_MOVE", "END_FOCUS">>
    /\ ~focus_active
    /\ warning_label = "move"
    /\ pendingClears = 1
    /\ tk = "mainloop"
    /\ ENABLED WarningClear

\* The device lines that are classified as an event.
EventLines == {raw \in DeviceLines : Classified[raw] # None}

\* C17: every event_queue.get() of poll_events finds an element, so it returns
\* at once; and the listener's put is possible whatever the number of events
\* waiting in the queue (up to the number of events the model lets it put).
C17_GetAndPutNeverBlock ==
    /\ tk = "poll_get" =>
          /\ event_queue # <<>>
          /\ ENABLED (\E msg \in {"START_FOCUS", "END_FOCUS", "SUDDEN_MOVE"} : Get(msg))
    /\ (lpc = "loop" /\ Len(enqueued) < MaxEvents) =>
          \A raw \in EventLines : ENABLED ReadLineOf(raw)

\* poll_events is about to call get() with two events waiting while the
\* listener is in its loop.
C17_Witness ==
    /\ tk = "poll_get"
    /\ Len(event_queue) = 2
    /\ lpc = "loop"

\* The line was made with this piece in it.
HasPiece(pc) == \E i \in 1..Len(cl_pieces) : cl_pieces[i] = pc

HasPieceOf(tokens) == \E i \in 1..Len(cl_pieces) : cl_pieces[i] \in tokens

\* C18: for a line that holds FOCUS and a start token, in any letter case and
\* with any whitespace around it, interpret_event returns START_FOCUS; and
\* interpret_event gives a line and the line in upper case the same result.
C18_StartInAnyCase ==
    /\ (cl_event # "unset" /\ HasPiece(FOCUS) /\ HasPieceOf(StartTokens))
            => cl_event = "START_FOCUS"
    /\ cl_upper_event # "unset" => cl_upper_event = cl_event

\* A padded line not in upper case that holds FOCUS and a start token was
\* classified, as it is and in upper case.
C18_Witness ==
    /\ HasPiece(FOCUS)
    /\ HasPieceOf(StartTokens)
    /\ Len(cl_pieces) = 2
    /\ cl_line # upper(cl_line)
    /\ strip(cl_line) # cl_line
    /\ cl_event = "START_FOCUS"
    /\ cl_upper_event = "START_FOCUS"

\* C19: the rules are tried in order and the first that matches decides: a
\* line with FOCUS, a start token and an end token is START_FOCUS, and a line
\* with FOCUS, a start or end token and a movement token is START_FOCUS or
\* END_FOCUS, never SUDDEN_MOVE.
C19_RulesInOrder ==
    cl_event # "unset" =>
        /\ (HasPiece(FOCUS) /\ HasPieceOf(StartTokens) /\ HasPieceOf(EndTokens))
                => cl_event = "START_FOCUS"
        /\ (HasPiece(FOCUS) /\ HasPieceOf(StartTokens \cup EndTokens)
                /\ HasPieceOf(MoveTokens))
                => cl_event \in {"START_FOCUS", "END_FOCUS"}

\* A line holding FOCUS, a start token and an end token has been classified.
C19_Witness ==
    /\ Len(cl_pieces) = 3
    /\ HasPiece(FOCUS)
    /\ HasPieceOf(StartTokens)
    /\ HasPieceOf(EndTokens)
    /\ cl_event = "START_FOCUS"

\* C20: while the session is and stays Idle the countdown has stopped: no step
\* changes remaining, and no step adds a pending tick callback, so a tick that
\* was still pending returns without rescheduling itself.
C20_CountdownStopsWhenIdle ==
    [][ (~focus_active /\ ~focus_active') =>
            /\ remaining' = remaining
            /\ pendingTicks' <= pendingTicks ]_vars

\* After END_FOCUS the tick that was still pending has run: no tick is pending
\* and remaining is where END_FOCUS left it.
C20_Witness ==
    /\ applied = <<"START_FOCUS", "END_FOCUS">>
    /\ status_label = "FOCUS STOPPED"
    /\ ~focus_active
    /\ remaining >= 1
    /\ pendingTicks = 0
    /\ tk = "mainloop"

\* The two ways of leaving Active: end_focus and the expiry branch of
\* update_timer.
LeavePaths == {"end", "timer"}

\* The Tk thread enters the call of collaborator c on the given path.
Calls(path, c) == tk' = path \o "_" \o c /\ calls' = Called(c)

\* C21: auto-completion and END_FOCUS have the same effects.  On either path,
\* from the same values of session_start_time and current_action_id, the
\* step that leaves Active and every return of a call goes on to the same
\* next call (add-log, CSV append, complete if an id is stored, leave desktop
\* focus, then back to the caller), and the path leaves focus_active false,
\* session_start_time None, current_action_id as the complete step left it
\* and move_count unchanged.
C21_AutoCompleteLikeEndFocus ==
    [][ /\ (focus_active /\ ~focus_active') =>
              \E path \in LeavePaths :
                  IF session_start_time # None THEN Calls(path, "add_log")
                  ELSE IF Truthy(current_action_id) THEN Calls(path, "complete")
                  ELSE Calls(path, "leave")
        /\ \A path \in LeavePaths :
              /\ (tk = path \o "_add_log" /\ tk' # tk) => Calls(path, "csv")
              /\ (tk = path \o "_csv" /\ tk' # tk) =>
                    IF Truthy(current_action_id) THEN Calls(path, "complete")
                    ELSE Calls(path, "leave")
              /\ (tk = path \o "_complete" /\ tk' # tk) =>
                    Calls(path, "leave") /\ current_action_id' = None
              /\ (tk = path \o "_leave" /\ tk' # tk) =>
                    /\ AtHandlerBoundary'
                    /\ calls' = calls
                    /\ session_start_time' = None
              /\ tk \in {path \o "_add_log", path \o "_csv", path \o "_leave"} =>
                    current_action_id' = current_action_id
              /\ tk \in {path \o "_add_log", path \o "_csv", path \o "_complete",
                         path \o "_leave"} =>
                    /\ ~focus_active'
                    /\ move_count' = move_count
                    /\ tk # path \o "_leave" =>
                          session_start_time' = session_start_time ]_vars

\* One session was ended by its timer and one by END_FOCUS, each with an id
\* stored: both made the four calls.
C21_Witness ==
    /\ applied = <<"START_FOCUS", "START_FOCUS", "END_FOCUS">>
    /\ nEnds = 2
    /\ calls["add_log"] = 2
    /\ calls["csv"] = 2
    /\ calls["complete"] = 2
    /\ calls["leave"] = 2
    /\ AtHandlerBoundary

\* C22: at most one tick callback (root.after(1000, update_timer)) is pending
\* at any time.
C22_AtMostOneTickPending == pendingTicks <= 1

\* C23: the warning of a SUDDEN_MOVE applied while Active is removed by a clear
\* callback only when that callback is its own.  Clear callbacks all have the
\* same delay, so they run in the order they were scheduled and the warning on
\* display is that of the latest move: a clear callback that removes it is
\* the move's own only if no other clear callback is pending.
C23_WarningStaysFullDelay ==
    [][ ( /\ focus_active
          /\ warning_label = "move"
          /\ warning_label' = ""
          /\ pendingClears' = pendingClears - 1 )
        => pendingClears = 1 ]_vars

\* C24: in focus_timer_pc.py a START_FOCUS applied while Idle with remaining > 0
\* goes on from the remaining value it finds (start_focus keeps it and its
\* closing update_timer takes the first second off it), a START_FOCUS applied
\* while Idle with remaining = 0 starts from the configured duration, the
\* countdown is paused while Idle, and after auto-completion remaining is 0.
C24_PcStartResumes ==
    [][ /\ (Dispatched("START_FOCUS") /\ ~focus_active /\ remaining > 0)
              => remaining' = remaining - 1
        /\ (Dispatched("START_FOCUS") /\ ~focus_active /\ remaining = 0)
              => remaining' = duration - 1
        /\ (~focus_active /\ ~focus_active') => remaining' = remaining
        /\ (~focus_active /\ status_label = "SESSION COMPLETE") => remaining = 0
      ]_vars

\* START_FOCUS, END_FOCUS, START_FOCUS with a duration of 2: the second start
\* found remaining = 1 and, no tick having run since, the countdown shows 0
\* left where a start from the duration would show 1.
C24_Witness ==
    /\ applied = <<"START_FOCUS", "END_FOCUS", "START_FOCUS">>
    /\ duration = 2
    /\ focus_active
    /\ sessionTicks = 0
    /\ remaining = 0
====
